---- MODULE Spec2Model ----
(***************************************************************************)
(* Long-term memory of the VSF agent: the flat log (longterm.txt), the     *)
(* ephemeral buffer (longterm_temp.txt), the vector collection, the        *)
(* retention run of MemoryUpdater, the batched embedding retry loop and    *)
(* the priming protocol of MemoryAgent.                                    *)
(***************************************************************************)
EXTENDS Integers, Sequences, FiniteSets, TLC

(***************************************************************************)
(* Bounds of the model.                                                    *)
(***************************************************************************)
MaxDate == 3
MaxLogLen == 3
MaxKeep == 2
MaxRuns == 2
MaxTexts == 2
MaxRetries == 3
MaxBuffer == 2
MaxCount == 3
MaxRequests == 4
MaxOverlapping == 2
MaxTempLen == 2
MaxPoints == 2
MaxStored == 3
MaxTopK == 2
PageSize == 2

(***************************************************************************)
(* Program constants.                                                      *)
(***************************************************************************)
DefaultMaxDays == 10
DefaultMaxRetries == 5
RateLimitSleep == 60

VARIABLES
    longterm,   \* the log file: [exists, lines]
    max_days,   \* MemoryUpdater.max_days
    hist,       \* the log file as it was before each cleanup run (cleanup runs only)
    emb,        \* the frame of one get_batch_embeddings call and of its caller
    agent,      \* MemoryAgent: is_primed, message_count_since_prime, buffer_size, memory
    chat,       \* the frame of each chat request in flight
    since,      \* what happened since the last successful priming (history)
    temp,       \* the ephemeral buffer file: [exists, lines]
    points,     \* the points of the long-term vector collection
    today,      \* the calendar day of the wall clock
    save_file,  \* SaveMemoryTool.longterm_file: "longterm" or "temp"
    upd,        \* the frame of one MemoryUpdater.update_memory run
    save,       \* the frame of one SaveMemoryTool._run call taken step by step
    clean,      \* the frame of one _cleanup_longterm_file call taken step by step
    ret         \* the frame of one RetrieveQdrantLongTermTool._run call

logVars == <<longterm, max_days, hist>>
embedVars == <<emb>>
primerVars == <<agent, chat, since>>
memVars == <<temp, points, today, save_file, upd, save, clean>>
retVars == <<ret>>
vars == <<longterm, max_days, hist, emb, agent, chat, since,
          temp, points, today, save_file, upd, save, clean, ret>>

(***************************************************************************)
(* Lines of a text file.  A line is abstracted by what the parsers look at:*)
(*   form "stamped"  "[YYYY-MM-DD HH:MM:SS] text": matches both regexes;   *)
(*   form "bracket"  "[anything else] text": matches only the import regex;*)
(*   form "raw"      text without a leading bracket group;                 *)
(*   form "blank"    empty or whitespace only.                             *)
(* date is the calendar day of a stamped line (days are numbered, their    *)
(* order is the lexicographic order of the YYYY-MM-DD strings), txt the    *)
(* text after the prefix, pad whether the line carries leading or trailing *)
(* whitespace.                                                             *)
(***************************************************************************)
Dates == 1..MaxDate
Texts == {"a", "b"}

Stamped(d, t, p) == [form |-> "stamped", date |-> d, txt |-> t, pad |-> p]
RawLine(t, p) == [form |-> "raw", date |-> 0, txt |-> t, pad |-> p]
BracketLine(t) == [form |-> "bracket", date |-> 0, txt |-> t, pad |-> FALSE]
BlankLine == [form |-> "blank", date |-> 0, txt |-> "", pad |-> FALSE]

strip(line) == [line EXCEPT !.pad = FALSE]

File(ls) == [exists |-> TRUE, lines |-> ls]
NoFile == [exists |-> FALSE, lines |-> <<>>]

Max(S) == CHOOSE x \in S : \A y \in S : y <= x
Min2(a, b) == IF a <= b THEN a ELSE b

RECURSIVE sorted_reverse(_)
sorted_reverse(S) == IF S = {} THEN <<>>
                     ELSE LET m == Max(S) IN <<m>> \o sorted_reverse(S \ {m})

Take(s, n) == SubSeq(s, 1, Min2(n, Len(s)))
Drop(s, n) == SubSeq(s, Min2(n, Len(s)) + 1, Len(s))
Range(s) == {s[i] : i \in 1..Len(s)}

(***************************************************************************)
(* The regular expression of the updater: a bracket group holding digits   *)
(* and dashes, white space, digits and colons; the one of the import       *)
(* script: a bracket group holding anything.                               *)
(***************************************************************************)
updater_match(line) == line.form = "stamped"
import_match(line) == line.form \in {"stamped", "bracket"}

(***************************************************************************)
(* MemoryUpdater._parse_longterm_file: one entry per non-blank line that   *)
(* matches the stamped prefix; other lines yield no entry.                 *)
(***************************************************************************)
RECURSIVE updater_parse_from(_, _)
updater_parse_from(lines, i) ==
    IF i > Len(lines) THEN <<>>
    ELSE LET line == strip(lines[i])
             rest == updater_parse_from(lines, i + 1)
         IN IF line.form = "blank" THEN rest
            ELSE IF updater_match(line)
                 THEN <<[line_num |-> i, timestamp |-> line.date, date |-> line.date,
                         text |-> line.txt, full_line |-> line]>> \o rest
                 ELSE rest

MemoryUpdater_parse_longterm_file(file) ==
    IF ~file.exists THEN <<>> ELSE updater_parse_from(file.lines, 1)

(***************************************************************************)
(* parse_longterm_file of Database/init_longterm_memory.py: one entry per  *)
(* non-blank line; a line without the bracket prefix gets the timestamp    *)
(* "unknown" (0 here) and its own text.                                    *)
(***************************************************************************)
RECURSIVE import_parse_from(_, _)
import_parse_from(lines, i) ==
    IF i > Len(lines) THEN <<>>
    ELSE LET line == strip(lines[i])
             rest == import_parse_from(lines, i + 1)
         IN IF line.form = "blank" THEN rest
            ELSE IF import_match(line)
                 THEN <<[id |-> i, timestamp |-> line.date, known |-> TRUE,
                         text |-> line, text_without_timestamp |-> line.txt]>> \o rest
                 ELSE <<[id |-> i, timestamp |-> 0, known |-> FALSE,
                         text |-> line, text_without_timestamp |-> line.txt]>> \o rest

parse_longterm_file(file) ==
    IF ~file.exists THEN <<>> ELSE import_parse_from(file.lines, 1)

(***************************************************************************)
(* MemoryUpdater._cleanup_longterm_file.                                   *)
(***************************************************************************)
EntryDates(entries) == {entries[i].date : i \in 1..Len(entries)}

unique_dates_of(entries) == sorted_reverse(EntryDates(entries))

dates_to_keep_oldest(unique_dates, n) ==
    Range(SubSeq(unique_dates, Len(unique_dates) - Min2(n, Len(unique_dates)) + 1,
                 Len(unique_dates)))

dates_to_keep(unique_dates, n) == Range(Take(unique_dates, n))

rewrite_append(file, ls) == File(file.lines \o ls)

rewrite(file, ls) == File(ls)

full_lines_text(entries) ==
    [i \in 1..Len(entries) |-> RawLine(entries[i].text, FALSE)]

full_lines(entries) == [i \in 1..Len(entries) |-> entries[i].full_line]

cleanup_longterm_file(file, n) ==
    LET entries == MemoryUpdater_parse_longterm_file(file)
        unique_dates == unique_dates_of(entries)
        keep == dates_to_keep(unique_dates, n)
        entries_to_keep == SelectSeq(entries, LAMBDA e : e.date \in keep)
    IN IF entries = <<>> THEN file
       ELSE IF Len(unique_dates) <= n THEN file
       ELSE rewrite(file, full_lines(entries_to_keep))

(***************************************************************************)
(* The long-term vector collection.  A point is [id, date, timestamp,      *)
(* text]: date is the payload field 'date' (0 when the payload has none),  *)
(* timestamp the day the payload timestamp starts with (0 when it starts   *)
(* with none, as "unknown" does).                                          *)
(***************************************************************************)
Point(id, date, timestamp, text) ==
    [id |-> id, date |-> date, timestamp |-> timestamp, text |-> text]

\* point.payload.get('date'), else the leading date of the timestamp
point_date(p) == IF p.date # 0 THEN p.date ELSE p.timestamp

RECURSIVE sorted_ascending(_)
sorted_ascending(S) ==
    IF S = {} THEN <<>>
    ELSE LET m == Max(S) IN sorted_ascending(S \ {m}) \o <<m>>

\* qdrant scroll(limit, offset): the points from id offset on, in id order,
\* at most limit of them, and the id the next page starts at (0 for None)
scroll(pts, offset, limit) ==
    LET ids == sorted_ascending({p.id : p \in {q \in pts : q.id >= offset}})
        page == Take(ids, limit)
    IN [points |-> [i \in 1..Len(page) |-> CHOOSE p \in pts : p.id = page[i]],
        next_offset |-> IF Len(ids) > limit THEN ids[limit + 1] ELSE 0]

scroll_all_first_page(pts, offset, limit) == scroll(pts, offset, limit).points

\* the while True loop around scroll: every point seen, page after page
RECURSIVE scroll_all(_, _, _)
scroll_all(pts, offset, limit) ==
    LET result == scroll(pts, offset, limit)
    IN IF result.points = <<>> THEN <<>>
       ELSE IF result.next_offset = 0 THEN result.points
       ELSE result.points \o scroll_all(pts, result.next_offset, limit)

\* MemoryUpdater._get_all_dates_in_qdrant: newest first
get_all_dates_in_qdrant(pts) ==
    sorted_reverse({point_date(p) : p \in Range(scroll_all(pts, 0, PageSize))} \ {0})

\* the ids _cleanup_qdrant collects for one date to remove
point_ids_to_delete(pts, date) ==
    {p.id : p \in {q \in Range(scroll_all(pts, 0, PageSize)) : point_date(q) = date}}

\* qdrant delete(points_selector = ids)
delete(pts, ids) == {p \in pts : p.id \notin ids}

\* the for loop of _cleanup_qdrant over the dates it gets through
RECURSIVE delete_dates(_, _)
delete_dates(pts, dates) ==
    IF dates = <<>> THEN pts
    ELSE delete_dates(delete(pts, point_ids_to_delete(pts, dates[1])), Tail(dates))

\* qdrant upsert: overwrite by id
upsert(pts, new) == {q \in pts : \A p \in new : q.id # p.id} \cup new

\* collection_info.points_count + 1
next_id(pts) == Cardinality(pts) + 1

(***************************************************************************)
(* SaveMemoryTool._run (tools/memory_tool.py).  information is the list of *)
(* the lines of information.strip(): the first goes behind the timestamp,  *)
(* the following ones become lines of their own.                           *)
(***************************************************************************)
Informations == {<<"a">>, <<"a", "b">>}

stamped_write(texts, day) ==
    <<Stamped(day, texts[1], FALSE)>>
        \o [i \in 1..(Len(texts) - 1) |-> RawLine(texts[i + 1], FALSE)]

append_file(file, ls) == File(file.lines \o ls)

SaveMemory ==
    /\ \E information \in Informations, qdrant \in {"ok", "error", "none"} :
          /\ IF save_file = "longterm"
             THEN /\ Len(longterm.lines) + Len(information) <= MaxLogLen
                  /\ longterm' = append_file(longterm, stamped_write(information, today))
                  /\ UNCHANGED temp
             ELSE /\ Len(temp.lines) + Len(information) <= MaxTempLen
                  /\ temp' = append_file(temp, stamped_write(information, today))
                  /\ UNCHANGED longterm
          /\ IF qdrant = "ok"
             THEN /\ Cardinality(points) < MaxPoints
                  /\ points' = upsert(points,
                                      {Point(next_id(points), 0, today, information)})
             ELSE UNCHANGED points
    /\ upd' = [upd EXCEPT !.overlapped = (upd.pc # "idle")]
    /\ UNCHANGED <<max_days, hist, today, save_file, save, clean, embedVars, primerVars, retVars>>

\* the wall clock reaches the next day
Tick ==
    /\ today < MaxDate
    /\ today' = today + 1
    /\ UNCHANGED <<logVars, temp, points, save_file, upd, save, clean, embedVars, primerVars,
                   retVars>>

(***************************************************************************)
(* MemoryUpdater.update_memory, step by step.                              *)
(***************************************************************************)
NewResult ==
    [success |-> TRUE, summary |-> <<>>, longterm_cleaned |-> FALSE,
     qdrant_cleaned |-> FALSE, temp_file_cleared |-> FALSE, errors |-> 0]

NoVec == [runs |-> 0, before |-> {}, scan_ok |-> TRUE, done |-> 0]

\* Beside the locals of the run the frame keeps its history: overlapped (a
\* save happened while the run was under way), steps (the steps entered, in
\* order), failed (the step that raised), llm (how the completion call
\* ended), appended (the log right after the summary was written), vec (the
\* collection before the latest _cleanup_qdrant and how its calls went).
IdleUpdater ==
    [pc |-> "idle", temp_content |-> <<>>, summary |-> <<>>, result |-> NewResult,
     overlapped |-> FALSE, steps |-> <<>>, failed |-> "", llm |-> "",
     appended |-> <<>>, vec |-> NoVec]

RECURSIVE lstrip_lines(_)
lstrip_lines(ls) ==
    IF ls # <<>> /\ ls[1].form = "blank" THEN lstrip_lines(Tail(ls)) ELSE ls

RECURSIVE rstrip_lines(_)
rstrip_lines(ls) ==
    IF ls # <<>> /\ ls[Len(ls)].form = "blank"
    THEN rstrip_lines(SubSeq(ls, 1, Len(ls) - 1)) ELSE ls

\* MemoryUpdater._read_temp_file: f.read().strip(), "" for a missing file
read_temp_file(file) ==
    IF ~file.exists THEN <<>> ELSE rstrip_lines(lstrip_lines(file.lines))

\* MemoryUpdater._save_summary_to_longterm: the timestamp of the day goes in
\* front of the first line of the summary (txt stands for all that follows
\* the new timestamp), the other lines follow as they are
save_summary_to_longterm(file, summary, day) ==
    IF summary = <<>> THEN file
    ELSE append_file(file, <<Stamped(day, summary[1].txt, FALSE)>> \o Tail(summary))

\* the points left by MemoryUpdater._cleanup_qdrant when the deletion of the
\* first `done` dates to remove goes through and the next one, if any, raises
cleanup_qdrant(pts, n, scan_ok, done) ==
    LET all_dates == IF scan_ok THEN get_all_dates_in_qdrant(pts) ELSE <<>>
        dates_to_remove == Drop(all_dates, n)
    IN IF all_dates = <<>> THEN pts
       ELSE IF Len(all_dates) <= n THEN pts
       ELSE delete_dates(pts, Take(dates_to_remove, done))

\* the number of dates that _cleanup_qdrant got through
dates_done(pts, n, scan_ok, done) ==
    IF scan_ok THEN Min2(done, Len(Drop(get_all_dates_in_qdrant(pts), n))) ELSE 0

\* a call to the collection raised during that _cleanup_qdrant
cleanup_qdrant_failed(pts, n, scan_ok, done) ==
    \/ ~scan_ok
    \/ done < Len(Drop(get_all_dates_in_qdrant(pts), n))

NotUpd == <<max_days, hist, today, save_file, save, clean, embedVars, primerVars>>

\* the step of the pipeline a position stands for
StepName(pc) ==
    CASE pc = "read" -> "ReadTemp"
      [] pc = "summarize" -> "Summarize"
      [] pc = "append" -> "AppendSummary"
      [] pc = "cleanup_log" -> "CleanupLog"
      [] pc = "cleanup_qdrant" -> "CleanupVectorStore"
      [] pc = "clear_temp" -> "ClearTemp"

next_pc_clear_first(pc, content) ==
    CASE pc = "read" -> IF content # <<>> THEN "summarize" ELSE "clear_temp"
      [] pc = "summarize" -> "append"
      [] pc = "append" -> "clear_temp"
      [] pc = "clear_temp" -> "cleanup_log"
      [] pc = "cleanup_log" -> "cleanup_qdrant"
      [] pc = "cleanup_qdrant" -> "done"

next_pc_always_summarize(pc, content) ==
    CASE pc = "read" -> "summarize"
      [] pc = "summarize" -> "append"
      [] pc = "append" -> "cleanup_log"
      [] pc = "cleanup_log" -> "cleanup_qdrant"
      [] pc = "cleanup_qdrant" -> "clear_temp"
      [] pc = "clear_temp" -> "done"

\* the statement that follows a step of the try block of update_memory
next_pc(pc, content) ==
    CASE pc = "read" -> IF content # <<>> THEN "summarize" ELSE "cleanup_log"
      [] pc = "summarize" -> "append"
      [] pc = "append" -> "cleanup_log"
      [] pc = "cleanup_log" -> "cleanup_qdrant"
      [] pc = "cleanup_qdrant" -> "clear_temp"
      [] pc = "clear_temp" -> "done"

LLMAnswers == {<<RawLine("a", FALSE)>>, <<>>}

summarize_with_llm_drops(content, outcome, answer) ==
    IF outcome = "ok" THEN answer ELSE <<>>

\* MemoryUpdater._summarize_with_llm: the stripped answer of the completion,
\* or the content itself when the call raises
summarize_with_llm(content, outcome, answer) ==
    IF content = <<>> THEN <<>>
    ELSE IF outcome = "ok" THEN answer
    ELSE content

\* the wrapper update_memory(...) is called
UpdStart ==
    /\ upd.pc = "idle"
    /\ Len(longterm.lines) <= MaxLogLen
    /\ upd' = [IdleUpdater EXCEPT !.pc = "init"]
    /\ UNCHANGED <<longterm, temp, points, NotUpd, retVars>>

\* MemoryUpdater(...) builds its clients, then updater.update_memory() begins
UpdInit ==
    /\ upd.pc = "init"
    /\ upd' = [upd EXCEPT !.pc = "read"]
    /\ UNCHANGED <<longterm, temp, points, NotUpd, retVars>>

\* a client constructor raises: nothing catches it in the wrapper
UpdInitRaise ==
    /\ upd.pc = "init"
    /\ upd' = [upd EXCEPT !.pc = "raised"]
    /\ UNCHANGED <<longterm, temp, points, NotUpd, retVars>>

UpdReadTemp ==
    /\ upd.pc = "read"
    /\ LET content == read_temp_file(temp)
       IN upd' = [upd EXCEPT !.temp_content = content,
                             !.steps = Append(@, StepName("read")),
                             !.pc = next_pc("read", content)]
    /\ UNCHANGED <<longterm, temp, points, NotUpd, retVars>>

UpdSummarize ==
    /\ upd.pc = "summarize"
    /\ \E outcome \in {"ok", "error"}, answer \in LLMAnswers :
          LET summary == summarize_with_llm(upd.temp_content, outcome, answer)
          IN upd' = [upd EXCEPT !.summary = summary, !.result.summary = summary,
                                !.llm = outcome,
                                !.steps = Append(@, StepName("summarize")),
                                !.pc = next_pc("summarize", upd.temp_content)]
    /\ UNCHANGED <<longterm, temp, points, NotUpd, retVars>>

UpdSaveSummary ==
    /\ upd.pc = "append"
    /\ longterm' = save_summary_to_longterm(longterm, upd.summary, today)
    /\ upd' = [upd EXCEPT !.steps = Append(@, StepName("append")),
                          !.appended = longterm'.lines,
                          !.pc = next_pc("append", upd.temp_content)]
    /\ UNCHANGED <<temp, points, NotUpd, retVars>>

UpdCleanupLongterm ==
    /\ upd.pc = "cleanup_log"
    /\ longterm' = cleanup_longterm_file(longterm, max_days)
    /\ upd' = [upd EXCEPT !.result.longterm_cleaned = TRUE,
                          !.steps = Append(@, StepName("cleanup_log")),
                          !.pc = next_pc("cleanup_log", upd.temp_content)]
    /\ UNCHANGED <<temp, points, NotUpd, retVars>>

\* _cleanup_qdrant catches whatever the collection raises and returns
UpdCleanupQdrant ==
    /\ upd.pc = "cleanup_qdrant"
    /\ \E scan_ok \in BOOLEAN, done \in 0..MaxDate :
          /\ points' = cleanup_qdrant(points, max_days, scan_ok, done)
          /\ upd' = [upd EXCEPT !.result.qdrant_cleaned = TRUE,
                                !.steps = Append(@, StepName("cleanup_qdrant")),
                                !.vec = [runs |-> 1, before |-> points,
                                         scan_ok |-> scan_ok,
                                         done |-> dates_done(points, max_days,
                                                             scan_ok, done)],
                                !.pc = next_pc("cleanup_qdrant", upd.temp_content)]
    /\ UNCHANGED <<longterm, temp, NotUpd, retVars>>

UpdClearTemp ==
    /\ upd.pc = "clear_temp"
    /\ temp' = IF temp.exists THEN File(<<>>) ELSE temp
    /\ upd' = [upd EXCEPT !.result.temp_file_cleared = TRUE,
                          !.steps = Append(@, StepName("clear_temp")),
                          !.pc = next_pc("clear_temp", upd.temp_content)]
    /\ UNCHANGED <<longterm, points, NotUpd, retVars>>

handle_exception_resumes(u) ==
    [u EXCEPT !.result.success = FALSE, !.result.errors = @ + 1,
              !.steps = Append(@, StepName(u.pc)),
              !.failed = StepName(u.pc),
              !.pc = next_pc(u.pc, u.temp_content)]

\* the except branch of update_memory: the step at u.pc has raised
handle_exception(u) ==
    [u EXCEPT !.result.success = FALSE, !.result.errors = @ + 1,
              !.steps = Append(@, StepName(u.pc)),
              !.failed = StepName(u.pc),
              !.pc = "done"]

\* a step that touches a file raises when it opens or reads it, before it
\* has written anything: caught at the top level of update_memory
UpdRaise ==
    /\ upd.pc \in {"read", "append", "cleanup_log", "clear_temp"}
    /\ upd' = handle_exception(upd)
    /\ UNCHANGED <<longterm, temp, points, NotUpd, retVars>>

\* the result, or the exception, reaches the caller
UpdReturn ==
    /\ upd.pc \in {"done", "raised"}
    /\ upd' = IdleUpdater
    /\ UNCHANGED <<longterm, temp, points, NotUpd, retVars>>

\* Frame of a save taken step by step: the argument, the timestamp taken
\* at the start, whether both vector clients are set, and what the call did:
\* written (the lines it appended), point (the point it upserted), failed
\* (the step that raised), output (the text returned).
IdleSave ==
    [pc |-> "idle", information |-> <<>>, timestamp |-> 0, clients |-> FALSE,
     written |-> <<>>, point |-> {}, failed |-> "", output |-> ""]

\* Frame of a log cleanup taken step by step: exclusive (the log is locked
\* from the read to the rewrite), read (the log as it was read), appended
\* (the lines saves appended so far, history), runs (the calls so far).
IdleClean ==
    [pc |-> "idle", exclusive |-> TRUE, read |-> NoFile, appended |-> <<>>, runs |-> 0]

MemIdle ==
    /\ temp = NoFile
    /\ points = {}
    /\ today = 1
    /\ save_file = "temp"
    /\ upd = IdleUpdater
    /\ save = IdleSave
    /\ clean = IdleClean

(***************************************************************************)
(* RetrieveQdrantLongTermTool._run (tools/longterm_qdrant_tool.py).        *)
(*                                                                         *)
(* The tool holds two optional clients.  The search of the collection is   *)
(* external: it answers with at most limit points of the collection, best  *)
(* first, or raises.  An output is the kind of text returned and, for      *)
(* results, its numbered lines.                                            *)
(***************************************************************************)
ClientSets == SUBSET {"qdrant", "protonx"}

Output(kind, lines) == [kind |-> kind, lines |-> lines]

NoOutput == Output("", <<>>)

IdleRetrieve ==
    [pc |-> "idle", clients |-> {}, top_k |-> 0, calls |-> <<>>, hits |-> <<>>,
     searched |-> FALSE, output |-> NoOutput]

RetIdle == ret = IdleRetrieve

clients_missing_never(clients) == FALSE

\* self.qdrant_client is None or self.protonx_client is None
clients_missing(clients) == "qdrant" \notin clients \/ "protonx" \notin clients

\* the answers a search with this limit can give: the best points first
RankedHits(pts, limit) ==
    LET n == Min2(limit, Cardinality(pts))
    IN {h \in [1..n -> pts] : \A i, j \in 1..n : i # j => h[i] # h[j]}

\* the numbered lines made of the hits, in their order
format_results(hits) ==
    [i \in 1..Len(hits) |->
        [rank |-> i, timestamp |-> hits[i].timestamp, text |-> hits[i].text]]

\* _run(query, top_k) is entered
RetrieveCall ==
    /\ ret.pc = "idle"
    /\ \E clients \in ClientSets, top_k \in 1..MaxTopK :
          ret' = [IdleRetrieve EXCEPT !.pc = "check", !.clients = clients,
                                      !.top_k = top_k]
    /\ UNCHANGED <<logVars, embedVars, primerVars, memVars>>

\* a missing client: the sentinel text is returned
RetrieveCheckClients ==
    /\ ret.pc = "check"
    /\ ret' = IF clients_missing(ret.clients)
              THEN [ret EXCEPT !.pc = "done", !.output = Output("unavailable", <<>>)]
              ELSE [ret EXCEPT !.pc = "embed"]
    /\ UNCHANGED <<logVars, embedVars, primerVars, memVars>>

\* protonx_client.embeddings.create([query]) answers, or raises (as it does
\* when the client is None) and the error text is returned
RetrieveEmbed ==
    /\ ret.pc = "embed"
    /\ \E ok \in IF "protonx" \in ret.clients THEN BOOLEAN ELSE {FALSE} :
          ret' = IF ok
                 THEN [ret EXCEPT !.pc = "search", !.calls = Append(@, "embed")]
                 ELSE [ret EXCEPT !.pc = "done", !.calls = Append(@, "embed"),
                                  !.output = Output("embedding_error", <<>>)]
    /\ UNCHANGED <<logVars, embedVars, primerVars, memVars>>

\* qdrant_client.search(limit = top_k) answers with its hits
RetrieveSearch ==
    /\ ret.pc = "search"
    /\ "qdrant" \in ret.clients
    /\ \E hits \in RankedHits(points, ret.top_k) :
          ret' = [ret EXCEPT !.pc = "format", !.calls = Append(@, "search"),
                             !.hits = hits, !.searched = TRUE]
    /\ UNCHANGED <<logVars, embedVars, primerVars, memVars>>

\* qdrant_client.search raises: the error text is returned
RetrieveSearchError ==
    /\ ret.pc = "search"
    /\ ret' = [ret EXCEPT !.pc = "done", !.calls = Append(@, "search"),
                          !.output = Output("search_error", <<>>)]
    /\ UNCHANGED <<logVars, embedVars, primerVars, memVars>>

\* no hit: the second sentinel text; else the formatted lines
RetrieveFormat ==
    /\ ret.pc = "format"
    /\ ret' = [ret EXCEPT !.pc = "done",
                          !.output = IF ret.hits = <<>>
                                     THEN Output("not_found", <<>>)
                                     ELSE Output("results", format_results(ret.hits))]
    /\ UNCHANGED <<logVars, embedVars, primerVars, memVars>>

\* the text reaches the agent
RetrieveReturn ==
    /\ ret.pc = "done"
    /\ ret' = IdleRetrieve
    /\ UNCHANGED <<logVars, embedVars, primerVars, memVars>>

(***************************************************************************)
(* MemoryAgent (agent_with_memory.py): the priming state and chat().       *)
(* A chat request runs through chat() in steps: the priming decision, the  *)
(* priming call, the ordinary completion, the increment, the return.       *)
(* memory is what the window of ConversationBufferWindowMemory(k =         *)
(* buffer_size) shows: the last k exchanges, "prime" or "turn".            *)
(***************************************************************************)
Clients == {"r1", "r2"}

LastK(s, k) == IF k <= 0 THEN <<>> ELSE SubSeq(s, Len(s) - Min2(k, Len(s)) + 1, Len(s))

save_context_narrow(a, exchange) ==
    [a EXCEPT !.memory = LastK(Append(@, exchange), a.buffer_size - 1)]

save_context(a, exchange) ==
    [a EXCEPT !.memory = LastK(Append(@, exchange), a.buffer_size)]

\* serialized: the host handles the requests of the session one at a time
NewAgent(buffer_size) ==
    [is_primed |-> FALSE, message_count_since_prime |-> 0,
     buffer_size |-> buffer_size, memory |-> <<>>, serialized |-> TRUE]

should_reprime_strict(a) == a.message_count_since_prime > a.buffer_size

\* MemoryAgent._should_reprime
should_reprime(a) == a.message_count_since_prime >= a.buffer_size

needs_prime_first_only(a, auto_prime) == auto_prime /\ ~a.is_primed

\* the condition under which chat() calls _prime_memory()
needs_prime(a, auto_prime) == auto_prime /\ (~a.is_primed \/ should_reprime(a))

prime_memory_marks_always(a, ok) ==
    [save_context(a, "prime") EXCEPT !.message_count_since_prime = 0, !.is_primed = TRUE]

\* the agent after _prime_memory(): the priming query answered (ok), or it
\* raised and the except branch returned None
prime_memory(a, ok) ==
    IF ok
    THEN [save_context(a, "prime") EXCEPT
             !.message_count_since_prime = 0, !.is_primed = TRUE]
    ELSE a

\* entry_* are what the request saw when chat() was entered; loaded is the
\* value of the counter read by the += of the request
IdleFrame ==
    [pc |-> "idle", auto_prime |-> FALSE, entry_is_primed |-> FALSE, entry_count |-> 0,
     entry_prime_failed |-> FALSE, entry_just_cleared |-> FALSE, loaded |-> 0,
     trace |-> <<>>]

\* prime_failed: the latest priming call raised; incrs: the increments made
\* since the counter was last reset; just_cleared: the buffer was cleared
\* and no turn has begun since, cleared_primed: it was primed, with turns
\* counted, when it was cleared; manual: a turn ran without auto-priming;
\* ever_failed: a priming call has raised; requests: the turns begun so far
NewSince ==
    [primed |-> FALSE, turns |-> 0, completed |-> 0, cleared |-> FALSE,
     prime_failed |-> FALSE, incrs |-> 0, just_cleared |-> FALSE,
     cleared_primed |-> FALSE, manual |-> FALSE, ever_failed |-> FALSE,
     requests |-> 0]

PrimerIdle ==
    /\ agent = NewAgent(0)
    /\ chat = [c \in Clients |-> IdleFrame]
    /\ since = NewSince

\* requests of a session handled one at a time
NoneInFlight == \A c \in Clients : chat[c].pc = "idle"

may_enter_unguarded(a, c) == chat[c].pc = "idle"

\* a request reaches the agent: at any time when nothing serializes the
\* requests, else only when no other request is being handled
may_enter(a, c) == chat[c].pc = "idle" /\ (a.serialized => NoneInFlight)

\* chat(message, auto_prime) is entered
ChatEnter(c) ==
    /\ may_enter(agent, c)
    /\ agent.message_count_since_prime < MaxCount
    /\ since.turns < MaxCount
    /\ since.incrs < MaxCount
    /\ since.requests < (IF agent.serialized THEN MaxRequests ELSE MaxOverlapping)
    /\ \E auto_prime \in BOOLEAN :
          /\ chat' = [chat EXCEPT ![c] =
                        [IdleFrame EXCEPT
                            !.pc = "check", !.auto_prime = auto_prime,
                            !.entry_is_primed = agent.is_primed,
                            !.entry_count = agent.message_count_since_prime,
                            !.entry_prime_failed = since.prime_failed,
                            !.entry_just_cleared = since.just_cleared]]
          /\ since' = [since EXCEPT !.just_cleared = FALSE, !.requests = @ + 1,
                                    !.manual = @ \/ ~auto_prime]
    /\ UNCHANGED <<agent, logVars, embedVars, memVars, retVars>>

\* if auto_prime: if not self.is_primed ... elif self._should_reprime() ...
ChatCheck(c) ==
    /\ chat[c].pc = "check"
    /\ chat' = [chat EXCEPT ![c].pc =
                    IF needs_prime(agent, chat[c].auto_prime) THEN "prime" ELSE "invoke"]
    /\ UNCHANGED <<agent, since, logVars, embedVars, memVars, retVars>>

\* _prime_memory(): the priming query answered
ChatPrimeOk(c) ==
    /\ chat[c].pc = "prime"
    /\ agent' = prime_memory(agent, TRUE)
    /\ chat' = [chat EXCEPT ![c].pc = "invoke", ![c].trace = Append(@, "prime_ok")]
    /\ since' = [since EXCEPT !.primed = TRUE, !.turns = 0, !.completed = 0,
                              !.cleared = FALSE, !.prime_failed = FALSE,
                              !.incrs = 0]
    /\ UNCHANGED <<logVars, embedVars, memVars, retVars>>

\* _prime_memory(): the priming query raises, None is returned
ChatPrimeFail(c) ==
    /\ chat[c].pc = "prime"
    /\ agent' = prime_memory(agent, FALSE)
    /\ chat' = [chat EXCEPT ![c].pc = "invoke", ![c].trace = Append(@, "prime_fail")]
    /\ since' = [since EXCEPT !.prime_failed = TRUE, !.ever_failed = TRUE]
    /\ UNCHANGED <<logVars, embedVars, memVars, retVars>>

\* the ordinary completion answers
ChatInvokeOk(c) ==
    /\ chat[c].pc = "invoke"
    /\ agent' = save_context(agent, "turn")
    /\ chat' = [chat EXCEPT ![c].pc = "incr", ![c].trace = Append(@, "invoke_ok")]
    /\ since' = [since EXCEPT !.turns = @ + 1, !.completed = @ + 1]
    /\ UNCHANGED <<logVars, embedVars, memVars, retVars>>

\* the ordinary completion raises: chat() returns the error text
ChatInvokeFail(c) ==
    /\ chat[c].pc = "invoke"
    /\ chat' = [chat EXCEPT ![c].pc = "done", ![c].trace = Append(@, "invoke_fail")]
    /\ since' = [since EXCEPT !.turns = @ + 1]
    /\ UNCHANGED <<agent, logVars, embedVars, memVars, retVars>>

\* self.message_count_since_prime += 1: the counter is read ...
ChatIncr(c) ==
    /\ chat[c].pc = "incr"
    /\ chat' = [chat EXCEPT ![c].pc = "store",
                            ![c].loaded = agent.message_count_since_prime]
    /\ UNCHANGED <<agent, since, logVars, embedVars, memVars, retVars>>

\* ... and the value read, plus one, is written back
ChatStore(c) ==
    /\ chat[c].pc = "store"
    /\ agent' = [agent EXCEPT !.message_count_since_prime = chat[c].loaded + 1]
    /\ chat' = [chat EXCEPT ![c].pc = "done", ![c].trace = Append(@, "incr")]
    /\ since' = [since EXCEPT !.incrs = @ + 1]
    /\ UNCHANGED <<logVars, embedVars, memVars, retVars>>

\* the request is over
ChatReturn(c) ==
    /\ chat[c].pc = "done"
    /\ chat' = [chat EXCEPT ![c] = IdleFrame]
    /\ UNCHANGED <<agent, since, logVars, embedVars, memVars, retVars>>

clear_buffer_memory_keeps_priming(a) == [a EXCEPT !.memory = <<>>]

\* MemoryAgent.clear_buffer_memory
clear_buffer_memory(a) ==
    [a EXCEPT !.memory = <<>>, !.message_count_since_prime = 0, !.is_primed = FALSE]

\* the clear endpoint is called
ClearBufferMemory ==
    /\ agent.serialized => NoneInFlight
    /\ agent' = clear_buffer_memory(agent)
    /\ since' = [since EXCEPT !.cleared = TRUE, !.incrs = 0, !.just_cleared = TRUE,
                              !.cleared_primed =
                                  agent.is_primed /\ agent.message_count_since_prime > 0]
    /\ UNCHANGED <<chat, logVars, embedVars, memVars, retVars>>


(***************************************************************************)
(* get_batch_embeddings (Database/upload_to_qdrant.py) and the pairing of  *)
(* its result with the entries by its caller.                              *)
(*                                                                         *)
(* The provider is external: a call either fails with an error or answers  *)
(* with one item per text, in the order of the texts, as a dict or as an   *)
(* object.  An error is known by its message.                              *)
(***************************************************************************)
Embedding(t) == <<"embedding", t>>

ErrorMessages == {"429", "Rate Limit", "per-minute", "timeout"}

provider_response(texts, shape) ==
    [shape |-> shape,
     data |-> [i \in 1..Len(texts) |-> [embedding |-> Embedding(texts[i])]]]

extract_embeddings_short(response) ==
    [i \in 1..(Len(response.data) - 1) |-> response.data[i].embedding]

\* both branches of isinstance(response, dict) read the items in order
extract_embeddings(response) ==
    IF response.shape = "dict"
    THEN [i \in 1..Len(response.data) |-> response.data[i].embedding]
    ELSE [i \in 1..Len(response.data) |-> response.data[i].embedding]

is_rate_limit_case_sensitive(error_str) == error_str \in {"429", "per-minute"}

\* "429" in error_str or "rate limit" in error_str.lower() or "per-minute" in ...
is_rate_limit(error_str) == error_str \in {"429", "Rate Limit", "per-minute"}

may_retry_always(attempt, max_retries) == attempt < max_retries

\* attempt < max_retries - 1
may_retry(attempt, max_retries) == attempt < max_retries - 1

\* zip(entries, embeddings): as long as the shorter of the two
zip_points(entries, embeddings) ==
    [i \in 1..Min2(Len(entries), Len(embeddings)) |->
        [text |-> entries[i], embedding |-> embeddings[i]]]

CallEvent(outcome, attempt) == [ev |-> "call", outcome |-> outcome, attempt |-> attempt]
SleepEvent == [ev |-> "sleep", outcome |-> "", attempt |-> RateLimitSleep]

NoError == [message |-> "", attempt |-> -1]

EmbedIdle ==
    emb = [pc |-> "idle", texts |-> <<>>, max_retries |-> 0, attempt |-> 0,
           trace |-> <<>>, result |-> <<>>, raised |-> NoError, points |-> <<>>]

TextLists == UNION {[1..n -> Texts] : n \in 0..MaxTexts}

\* a caller enters get_batch_embeddings(texts, max_retries)
EmbedCall ==
    /\ emb.pc = "idle"
    /\ \E texts \in TextLists, m \in (0..MaxRetries) \cup {DefaultMaxRetries} :
          emb' = [emb EXCEPT !.pc = "loop", !.texts = texts, !.max_retries = m]
    /\ UNCHANGED <<logVars, primerVars, memVars, retVars>>

\* one iteration of the loop in which the provider answers
EmbedAttemptOk ==
    /\ emb.pc = "loop"
    /\ emb.attempt < emb.max_retries
    /\ \E shape \in {"dict", "object"} :
          emb' = [emb EXCEPT
                    !.trace = Append(@, CallEvent("ok", emb.attempt)),
                    !.result = extract_embeddings(provider_response(emb.texts, shape)),
                    !.pc = "returned"]
    /\ UNCHANGED <<logVars, primerVars, memVars, retVars>>

\* one iteration of the loop in which the provider raises
EmbedAttemptError ==
    /\ emb.pc = "loop"
    /\ emb.attempt < emb.max_retries
    /\ \E error_str \in ErrorMessages :
          LET called == Append(emb.trace, CallEvent(error_str, emb.attempt))
          IN IF may_retry(emb.attempt, emb.max_retries)
             THEN emb' = [emb EXCEPT
                            !.trace = IF is_rate_limit(error_str)
                                      THEN Append(called, SleepEvent)
                                      ELSE called,
                            !.attempt = @ + 1]
             ELSE emb' = [emb EXCEPT
                            !.trace = called,
                            !.raised = [message |-> error_str, attempt |-> emb.attempt],
                            !.pc = "raised"]
    /\ UNCHANGED <<logVars, primerVars, memVars, retVars>>

\* the loop is over without a return or a raise: return None
EmbedReturnNone ==
    /\ emb.pc = "loop"
    /\ emb.attempt >= emb.max_retries
    /\ emb' = [emb EXCEPT !.pc = "returned_none"]
    /\ UNCHANGED <<logVars, primerVars, memVars, retVars>>

\* the caller pairs the entries with the embeddings returned
EmbedBuildPoints ==
    /\ emb.pc = "returned"
    /\ emb' = [emb EXCEPT !.points = zip_points(emb.texts, emb.result), !.pc = "built"]
    /\ UNCHANGED <<logVars, primerVars, memVars, retVars>>

LogIdle == longterm = NoFile /\ max_days = DefaultMaxDays /\ hist = <<>>

InitEmbed == EmbedIdle /\ LogIdle /\ PrimerIdle /\ MemIdle /\ RetIdle

NextEmbed ==
    \/ EmbedCall
    \/ EmbedAttemptOk
    \/ EmbedAttemptError
    \/ EmbedReturnNone
    \/ EmbedBuildPoints

SpecEmbed == InitEmbed /\ [][NextEmbed]_vars

InitPrimer ==
    /\ \E buffer_size \in 0..MaxBuffer : agent = NewAgent(buffer_size)
    /\ chat = [c \in Clients |-> IdleFrame]
    /\ since = NewSince
    /\ LogIdle
    /\ EmbedIdle
    /\ MemIdle
    /\ RetIdle

NextPrimer ==
    \/ \E c \in Clients : ChatEnter(c)
    \/ \E c \in Clients : ChatCheck(c)
    \/ \E c \in Clients : ChatPrimeOk(c)
    \/ \E c \in Clients : ChatPrimeFail(c)
    \/ \E c \in Clients : ChatInvokeOk(c)
    \/ \E c \in Clients : ChatInvokeFail(c)
    \/ \E c \in Clients : ChatIncr(c)
    \/ \E c \in Clients : ChatStore(c)
    \/ \E c \in Clients : ChatReturn(c)
    \/ ClearBufferMemory

SpecPrimer == InitPrimer /\ [][NextPrimer]_vars

(***************************************************************************)
(* What the claims about priming speak of.  since counts, from the last    *)
(* successful priming on, the ordinary turns (turns) and those of them     *)
(* whose completion answered (completed), and notes a clear.               *)
(***************************************************************************)
Quiescent == \A c \in Clients : chat[c].pc \in {"idle", "done"}
PrimeEvents(f) == SelectSeq(f.trace, LAMBDA x : x \in {"prime_ok", "prime_fail"})
Happened(f, x) == \E i \in 1..Len(f.trace) : f.trace[i] = x

C9_StartAndPrime ==
    /\ (~since.primed /\ since.turns = 0) =>
          (~agent.is_primed /\ agent.message_count_since_prime = 0)
    /\ \A c \in Clients :
          (chat[c].trace # <<>> /\ chat[c].trace[Len(chat[c].trace)] = "prime_ok") =>
              (agent.is_primed /\ agent.message_count_since_prime = 0)

\* C9 as stated: new state is (false, 0); after a successful prime() it is
\* (true, 0); shouldReprime() is true exactly from bufferSize ordinary turns
\* since the last successful prime on.
C9_AllTurnsCount ==
    /\ C9_StartAndPrime
    /\ (since.primed /\ Quiescent) =>
          (should_reprime(agent) <=> since.turns >= agent.buffer_size)

\* C9 amended: ... exactly from bufferSize ordinary turns on that completed
\* without error since the last successful prime, the buffer not having
\* been cleared since.
C9_CompletedTurnsCount ==
    /\ C9_StartAndPrime
    /\ (since.primed /\ ~since.cleared /\ Quiescent) =>
          /\ agent.is_primed
          /\ should_reprime(agent) <=> since.completed >= agent.buffer_size

C9_Witness ==
    /\ since.primed /\ ~since.cleared /\ Quiescent
    /\ agent.buffer_size >= 2
    /\ since.completed = agent.buffer_size
    /\ since.turns > since.completed
    /\ should_reprime(agent)

C10_PrimeDecision(f) ==
    LET due == ~f.entry_is_primed \/ f.entry_count >= agent.buffer_size
    IN /\ Len(PrimeEvents(f)) = (IF due THEN 1 ELSE 0)
       /\ due => /\ f.trace[1] \in {"prime_ok", "prime_fail"}
                  /\ f.trace[2] \in {"invoke_ok", "invoke_fail"}

C10_Base(f) == IF Happened(f, "prime_ok") THEN 0 ELSE f.entry_count

\* C10 as stated: with auto-priming, prime() is called exactly when isPrimed
\* is false or shouldReprime() is true, once and before the ordinary
\* completion, and the turn then adds exactly 1 to messagesSincePrime.
C10_AlwaysIncrements ==
    \A c \in Clients :
        (chat[c].pc = "done" /\ chat[c].auto_prime) =>
            /\ C10_PrimeDecision(chat[c])
            /\ agent.message_count_since_prime = C10_Base(chat[c]) + 1

\* C10 amended: ... and the turn then adds exactly 1 to messagesSincePrime
\* when its ordinary completion returns, and nothing when it raises.
C10_IncrementsOnSuccess ==
    \A c \in Clients :
        (chat[c].pc = "done" /\ chat[c].auto_prime) =>
            /\ C10_PrimeDecision(chat[c])
            /\ agent.message_count_since_prime =
                  C10_Base(chat[c]) + (IF Happened(chat[c], "invoke_ok") THEN 1 ELSE 0)

C10_Witness ==
    \E c \in Clients :
        /\ chat[c].pc = "done" /\ chat[c].auto_prime
        /\ chat[c].entry_is_primed
        /\ agent.buffer_size >= 1
        /\ chat[c].entry_count = agent.buffer_size
        /\ chat[c].trace = <<"prime_ok", "invoke_ok", "incr">>
        /\ agent.message_count_since_prime = 1

(***************************************************************************)
(* C11: when the priming call of a turn fails, is_primed and               *)
(* message_count_since_prime are what they were when the turn began, the   *)
(* ordinary completion of that turn is still attempted before the turn     *)
(* returns, and as long as no priming call has succeeded since, the        *)
(* priming condition holds, so that the next auto-priming turn calls the   *)
(* priming query again.                                                    *)
(***************************************************************************)
PrimeFailed(f) == f.trace # <<>> /\ f.trace[1] = "prime_fail"

CompletionAttempted(f) ==
    Len(f.trace) >= 2 /\ f.trace[2] \in {"invoke_ok", "invoke_fail"}

C11_FailedPrimeKeepsState ==
    /\ \A c \in Clients :
          LET f == chat[c]
          IN /\ (PrimeFailed(f) /\ f.pc = "invoke") =>
                   /\ agent.is_primed = f.entry_is_primed
                   /\ agent.message_count_since_prime = f.entry_count
             /\ PrimeFailed(f) => f.pc \in {"invoke", "incr", "store", "done"}
             /\ (PrimeFailed(f) /\ f.pc \in {"incr", "store", "done"}) => CompletionAttempted(f)
             /\ (f.entry_prime_failed /\ f.auto_prime
                 /\ f.pc \in {"invoke", "incr", "store", "done"}) =>
                   PrimeEvents(f) # <<>>
    /\ since.prime_failed => needs_prime(agent, TRUE)

\* a turn that began after a failed priming call has called it again
C11_Witness ==
    \E c \in Clients :
        /\ chat[c].entry_prime_failed
        /\ chat[c].auto_prime
        /\ chat[c].pc = "done"
        /\ PrimeEvents(chat[c]) # <<>>
        /\ agent.message_count_since_prime > 0

(***************************************************************************)
(* What the claims about embed speak of, stated on the trace of the call.  *)
(***************************************************************************)
EmbedCalls == SelectSeq(emb.trace, LAMBDA x : x.ev = "call")
EmbedDone == emb.pc \in {"returned", "built", "returned_none", "raised"}
EmbedAllFailed == \A i \in 1..Len(emb.trace) : emb.trace[i].outcome # "ok"
RateLimited(x) == x.ev = "call" /\ x.outcome \in {"429", "Rate Limit", "per-minute"}

\* C6: a successful embed(texts) returns one embedding per text, the i-th
\* that of texts[i], and the points built from it pair every entry with the
\* embedding of its own text.
C6_OrderPreserved ==
    /\ emb.pc \in {"returned", "built"} =>
          /\ Len(emb.result) = Len(emb.texts)
          /\ \A i \in 1..Len(emb.texts) : emb.result[i] = Embedding(emb.texts[i])
    /\ emb.pc = "built" =>
          /\ Len(emb.points) = Len(emb.texts)
          /\ \A i \in 1..Len(emb.texts) :
                emb.points[i] = [text |-> emb.texts[i],
                                 embedding |-> Embedding(emb.texts[i])]

C6_Witness ==
    /\ emb.pc = "built"
    /\ Len(emb.texts) >= 2
    /\ emb.texts[1] # emb.texts[2]
    /\ Len(EmbedCalls) >= 2

\* C7: with max_retries >= 1 and a provider failing on every attempt, the
\* provider is called exactly max_retries times, the error of the last
\* attempt is raised, nothing is waited for after it, no value is returned.
C7_RaisesLastError ==
    (emb.max_retries >= 1 /\ EmbedDone /\ EmbedAllFailed) =>
        /\ emb.pc = "raised"
        /\ Len(EmbedCalls) = emb.max_retries
        /\ emb.trace[Len(emb.trace)].ev = "call"
        /\ emb.trace[Len(emb.trace)].attempt = emb.max_retries - 1
        /\ emb.raised = [message |-> emb.trace[Len(emb.trace)].outcome,
                         attempt |-> emb.max_retries - 1]
        /\ emb.result = <<>>

C7_Witness ==
    /\ emb.pc = "raised"
    /\ emb.max_retries = DefaultMaxRetries
    /\ emb.raised.message = "429"
    /\ \E i \in 1..Len(emb.trace) : emb.trace[i].outcome = "timeout"

\* C8: k < max_retries failures of any kind and then a success: the result
\* is returned, nothing is raised, 60 s are waited exactly once after each
\* rate-limited failure and never otherwise.
C8_SleepsOnlyAfterRateLimit ==
    emb.pc \in {"returned", "built"} =>
        /\ emb.raised = NoError
        /\ Len(emb.result) = Len(emb.texts)
        /\ Len(EmbedCalls) - 1 < emb.max_retries
        /\ \A i \in 1..Len(emb.trace) :
              /\ RateLimited(emb.trace[i]) =>
                    (i < Len(emb.trace) /\ emb.trace[i + 1] = SleepEvent)
              /\ emb.trace[i].ev = "sleep" =>
                    (i > 1 /\ RateLimited(emb.trace[i - 1])
                           /\ emb.trace[i].attempt = 60)
        /\ Len(SelectSeq(emb.trace, RateLimited)) = 2 =>
              Len(SelectSeq(emb.trace, LAMBDA x : x.ev = "sleep")) <= 2

C8_Witness ==
    /\ emb.pc = "returned"
    /\ emb.max_retries = DefaultMaxRetries
    /\ emb.trace = <<CallEvent("Rate Limit", 0), SleepEvent, CallEvent("timeout", 1),
                     CallEvent("429", 2), SleepEvent, CallEvent("ok", 3)>>

(***************************************************************************)
(* Retention cleanup of the log as a function of the file: the file and    *)
(* max_days are drawn from bounded sets, and cleanup is run repeatedly.    *)
(***************************************************************************)
LineSet ==
    {Stamped(d, "a", p) : d \in Dates, p \in BOOLEAN}
        \cup {Stamped(d, "b", FALSE) : d \in Dates}
        \cup {RawLine("a", FALSE), BracketLine("a"), BlankLine}

BoundedLogs == UNION {[1..n -> LineSet] : n \in 0..MaxLogLen}

\* DefaultMaxDays + 2 consecutive days, one entry a day
ScenarioLog == File([i \in 1..(DefaultMaxDays + 2) |-> Stamped(i, "a", FALSE)])

InitCleanup ==
    /\ EmbedIdle
    /\ PrimerIdle
    /\ MemIdle
    /\ RetIdle
    /\ hist = <<>>
    /\ \/ /\ longterm \in {File(ls) : ls \in BoundedLogs} \cup {NoFile}
          /\ max_days \in 0..MaxKeep
       \/ /\ longterm = ScenarioLog
          /\ max_days = DefaultMaxDays

RunCleanup ==
    /\ Len(hist) < MaxRuns
    /\ hist' = Append(hist, longterm)
    /\ longterm' = cleanup_longterm_file(longterm, max_days)
    /\ UNCHANGED <<max_days, embedVars, primerVars, memVars, retVars>>

NextCleanup == RunCleanup

SpecCleanup == InitCleanup /\ [][NextCleanup]_vars

(***************************************************************************)
(* What the claims about cleanup speak of, stated on the lines themselves. *)
(***************************************************************************)
StampedDates(file) ==
    {file.lines[i].date : i \in {j \in 1..Len(file.lines) : file.lines[j].form = "stamped"}}

\* the n greatest elements of S
TopN(S, n) == {d \in S : Cardinality({e \in S : e > d}) < n}

NonBlank(file) == SelectSeq(file.lines, LAMBDA l : l.form # "blank")

RetainedLines(file, n) ==
    SelectSeq(file.lines,
              LAMBDA l : l.form = "stamped" /\ l.date \in TopN(StampedDates(file), n))

AfterFirstRun == Len(hist) = 1
Trimmed == Cardinality(StampedDates(hist[1])) > max_days

\* C2: a log with K > N distinct dates is left with exactly N distinct dates,
\* the N greatest; twelve consecutive days with N = 10 keep the last ten.
C2_KeepsMostRecent ==
    (AfterFirstRun /\ Trimmed) =>
        /\ StampedDates(longterm) = TopN(StampedDates(hist[1]), max_days)
        /\ Cardinality(StampedDates(longterm)) = max_days
        /\ hist[1] = ScenarioLog =>
              StampedDates(longterm) = 3..(DefaultMaxDays + 2)

C2_Witness ==
    /\ AfterFirstRun
    /\ hist[1] = ScenarioLog
    /\ Len(longterm.lines) = DefaultMaxDays

\* C3: a second cleanup run right after the first leaves the file as the
\* first run left it.
C3_Idempotent == Len(hist) = 2 => longterm = hist[2]

C3_Witness ==
    /\ Len(hist) = 2
    /\ hist[2] # hist[1]
    /\ max_days >= 1

\* C4 as stated: unchanged when the dates number at most max_days, otherwise
\* exactly the retained entries, in order, each with its original line text.
C4_OriginalText ==
    AfterFirstRun =>
        IF Trimmed THEN longterm = File(RetainedLines(hist[1], max_days))
        ELSE longterm = hist[1]

\* C4 amended: ... each with its original line text stripped of leading and
\* trailing white space.
C4_StrippedText ==
    AfterFirstRun =>
        IF Trimmed
        THEN LET kept == RetainedLines(hist[1], max_days)
             IN longterm = File([i \in 1..Len(kept) |-> strip(kept[i])])
        ELSE longterm = hist[1]

C4_Witness ==
    /\ AfterFirstRun /\ Trimmed
    /\ \E i \in 1..Len(hist[1].lines) :
          /\ hist[1].lines[i].pad
          /\ hist[1].lines[i].date \in StampedDates(longterm)
    /\ Len(longterm.lines) = 2
    /\ longterm.lines[1].date # longterm.lines[2].date

\* C5: every parse yields one entry per non-empty line, in file order, a
\* line without the prefix as an entry with timestamp "unknown" and its raw
\* text, in the import parse and in the cleanup parse alike, so that such a
\* line survives the rewrite.
EntryLines(entries, key) == [i \in 1..Len(entries) |-> entries[i][key]]
StripAll(ls) == [i \in 1..Len(ls) |-> strip(ls[i])]

C5_EveryLineAnEntry ==
    Len(hist) >= 1 =>
        /\ EntryLines(parse_longterm_file(hist[1]), "text") = StripAll(NonBlank(hist[1]))
        /\ \A i \in 1..Len(parse_longterm_file(hist[1])) :
              LET e == parse_longterm_file(hist[1])[i]
              IN ~import_match(e.text) => (~e.known /\ e.text_without_timestamp = e.text.txt)
        /\ EntryLines(MemoryUpdater_parse_longterm_file(hist[1]), "full_line")
              = StripAll(NonBlank(hist[1]))
        /\ \A i \in 1..Len(hist[1].lines) :
              hist[1].lines[i].form \in {"raw", "bracket"} =>
                  strip(hist[1].lines[i]) \in Range(longterm.lines)

(***************************************************************************)
(* The memory system: saves of facts, the passing of days and the runs of  *)
(* update_memory, from empty files and an empty collection.                *)
(***************************************************************************)
Init ==
    /\ longterm = NoFile
    /\ max_days \in 1..MaxKeep
    /\ hist = <<>>
    /\ temp = NoFile
    /\ points = {}
    /\ today = 1
    /\ save_file \in {"longterm", "temp"}
    /\ upd = IdleUpdater
    /\ save = IdleSave
    /\ clean = IdleClean
    /\ EmbedIdle
    /\ PrimerIdle
    /\ RetIdle

Next ==
    \/ SaveMemory
    \/ Tick
    \/ UpdStart
    \/ UpdInit
    \/ UpdInitRaise
    \/ UpdReadTemp
    \/ UpdSummarize
    \/ UpdSaveSummary
    \/ UpdCleanupLongterm
    \/ UpdCleanupQdrant
    \/ UpdClearTemp
    \/ UpdRaise
    \/ UpdReturn

Spec == Init /\ [][Next]_vars

(***************************************************************************)
(* C1: when a run of update_memory that no save overlapped ends with       *)
(* success = TRUE, the dates of the entries of the long-term log are the   *)
(* dates of the points of the long-term collection, and there are at most  *)
(* max_days of them.                                                       *)
(***************************************************************************)
LogDates == {e.date : e \in Range(MemoryUpdater_parse_longterm_file(longterm))}

VectorDates == Range(get_all_dates_in_qdrant(points))

SameWindow ==
    /\ LogDates = VectorDates
    /\ Cardinality(LogDates) <= max_days
    /\ Cardinality(VectorDates) <= max_days

C1_SameWindowAfterSuccess ==
    [][(/\ upd.pc # "done"
        /\ upd'.pc = "done"
        /\ upd'.result.success
        /\ ~upd'.overlapped) => SameWindow']_vars

(***************************************************************************)
(* C12: the steps of a run of update_memory are entered in the order       *)
(* ReadTemp, Summarize, AppendSummary, CleanupLog, CleanupVectorStore,     *)
(* ClearTemp, each at most once and beginning with ReadTemp; Summarize and *)
(* AppendSummary go together; ClearTemp is entered only after both cleanup *)
(* steps have returned.                                                    *)
(***************************************************************************)
StepOrder ==
    <<"ReadTemp", "Summarize", "AppendSummary", "CleanupLog", "CleanupVectorStore",
      "ClearTemp">>

StepIndex(x) == CHOOSE i \in 1..Len(StepOrder) : StepOrder[i] = x

Entered(x) == x \in Range(upd.steps)

Completed(x) == Entered(x) /\ upd.failed # x

C12_StepsInOrder ==
    /\ \A i, j \in 1..Len(upd.steps) :
          i < j => StepIndex(upd.steps[i]) < StepIndex(upd.steps[j])
    /\ upd.steps # <<>> => upd.steps[1] = "ReadTemp"
    /\ \A i \in 2..Len(upd.steps) : Completed(upd.steps[i - 1])
    /\ Entered("AppendSummary") => Entered("Summarize")
    /\ (Entered("Summarize") /\ Entered("CleanupLog")) => Entered("AppendSummary")
    /\ Entered("CleanupVectorStore") => Completed("CleanupLog")
    /\ Entered("ClearTemp") =>
          /\ Completed("CleanupLog") /\ Completed("CleanupVectorStore")
          /\ upd.result.longterm_cleaned /\ upd.result.qdrant_cleaned

\* a run that went through all six steps
C12_Witness == upd.pc = "done" /\ upd.steps = StepOrder /\ upd.result.success

(***************************************************************************)
(* C13: a run of update_memory that finds the buffer empty or missing      *)
(* reports an empty summary, does not call the completion and enters       *)
(* neither Summarize nor AppendSummary; none of its steps makes the log    *)
(* longer; and unless a step raises, it goes through CleanupLog,           *)
(* CleanupVectorStore and ClearTemp.                                       *)
(***************************************************************************)
FoundEmpty == Completed("ReadTemp") /\ upd.temp_content = <<>>

C13_EmptyBufferState ==
    FoundEmpty =>
        /\ upd.result.summary = <<>>
        /\ upd.llm = ""
        /\ ~Entered("Summarize") /\ ~Entered("AppendSummary")
        /\ upd.appended = <<>>
        /\ (upd.pc = "done" /\ upd.failed = "") =>
              /\ upd.steps = <<"ReadTemp", "CleanupLog", "CleanupVectorStore", "ClearTemp">>
              /\ upd.result.longterm_cleaned /\ upd.result.qdrant_cleaned
              /\ upd.result.temp_file_cleared

C13_EmptyBufferStep ==
    (FoundEmpty /\ upd'.steps # upd.steps) => Len(longterm'.lines) <= Len(longterm.lines)

C13_EmptyBufferSkipsSummary == [](C13_EmptyBufferState) /\ [][C13_EmptyBufferStep]_vars

\* a run over an existing, empty buffer has gone through the three last steps
C13_Witness ==
    /\ upd.pc = "done" /\ upd.result.success
    /\ FoundEmpty /\ temp.exists /\ longterm.lines # <<>>
    /\ Entered("ClearTemp")

(***************************************************************************)
(* C14: when the completion call raises on a non-empty buffer, the summary *)
(* of the run is the buffer content as read: it is what result.summary     *)
(* reports and what AppendSummary writes to the log behind the timestamp   *)
(* of the day; the failure does not mark the run failed, and the run goes  *)
(* on to the cleanup steps.                                                *)
(***************************************************************************)
CompletionFailed == Entered("Summarize") /\ upd.llm = "error"

C14_VerbatimFallback ==
    CompletionFailed =>
        /\ upd.temp_content # <<>>
        /\ upd.summary = upd.temp_content
        /\ upd.result.summary = upd.temp_content
        /\ Completed("AppendSummary") =>
              /\ Len(upd.appended) >= Len(upd.temp_content)
              /\ LET written == SubSeq(upd.appended,
                                        Len(upd.appended) - Len(upd.temp_content) + 1,
                                        Len(upd.appended))
                 IN /\ written[1].form = "stamped"
                    /\ written[1].date <= today
                    /\ written[1].txt = upd.temp_content[1].txt
                    /\ Tail(written) = Tail(upd.temp_content)
        /\ upd.failed = "" => upd.result.success
        /\ (upd.pc = "done" /\ upd.failed = "") =>
              /\ Completed("CleanupLog") /\ Completed("CleanupVectorStore")
              /\ Completed("ClearTemp")

\* a run whose completion call raised has finished, its two-line buffer
\* content written to the log
C14_Witness ==
    /\ CompletionFailed
    /\ upd.pc = "done" /\ upd.result.success
    /\ Len(upd.temp_content) = 2
    /\ Completed("AppendSummary") /\ Completed("ClearTemp")

(***************************************************************************)
(* C15: when a step of a run of update_memory has failed, the result has   *)
(* success = FALSE and at least one error; a result with success = TRUE    *)
(* and both cleaned flags set is returned only when neither CleanupLog nor *)
(* CleanupVectorStore failed.                                              *)
(***************************************************************************)
VectorStoreFailed ==
    /\ Entered("CleanupVectorStore")
    /\ cleanup_qdrant_failed(upd.vec.before, max_days, upd.vec.scan_ok, upd.vec.done)

SomeStepFailed == upd.failed # "" \/ VectorStoreFailed

C15_FailureReported ==
    upd.pc = "done" =>
        /\ SomeStepFailed => (~upd.result.success /\ upd.result.errors > 0)
        /\ (/\ upd.result.success
            /\ upd.result.longterm_cleaned
            /\ upd.result.qdrant_cleaned) =>
              (upd.failed # "CleanupLog" /\ ~VectorStoreFailed)

(***************************************************************************)
(* C16: when a step of a run of update_memory raises after AppendSummary   *)
(* has written the summary, the failed step is the last step of the run,   *)
(* the buffer still begins with the content the run read, and the written  *)
(* summary line is still in the log as long as its date is one of the      *)
(* log (it always is when no save overlapped the run).                     *)
(***************************************************************************)
FailedAfterAppend ==
    /\ upd.pc = "done"
    /\ Completed("AppendSummary")
    /\ upd.summary # <<>>
    /\ upd.failed # ""

SummaryLine == upd.appended[Len(upd.appended) - Len(upd.summary) + 1]

C17_NeverRaises == upd.pc # "raised"

(***************************************************************************)
(* MemoryUpdater._cleanup_qdrant on its own, over the collections that     *)
(* saves (timestamp only), _add_temp_to_qdrant (date and timestamp) and    *)
(* the import of a log (timestamp, or "unknown") can have left.            *)
(***************************************************************************)
StoredPoints ==
    {Point(id, 0, d, <<"a">>) : id \in 1..MaxStored, d \in 0..MaxDate}
        \cup {Point(id, d, d, <<"a">>) : id \in 1..MaxStored, d \in 1..MaxDate}

Collections ==
    {c \in SUBSET StoredPoints : \A p, q \in c : p.id = q.id => p = q}

InitVector ==
    /\ LogIdle
    /\ EmbedIdle
    /\ PrimerIdle
    /\ RetIdle
    /\ temp = NoFile
    /\ today = MaxDate
    /\ save_file = "temp"
    /\ upd = IdleUpdater
    /\ save = IdleSave
    /\ clean = IdleClean
    /\ points \in Collections

RunCleanupQdrant ==
    /\ upd.vec.runs < MaxRuns
    /\ \E n \in 1..MaxKeep, scan_ok \in BOOLEAN, done \in 0..MaxDate :
          /\ max_days' = n
          /\ points' = cleanup_qdrant(points, n, scan_ok, done)
          /\ upd' = [upd EXCEPT !.vec = [runs |-> @.runs + 1, before |-> points,
                                          scan_ok |-> scan_ok,
                                          done |-> dates_done(points, n, scan_ok, done)]]
    /\ UNCHANGED <<longterm, hist, temp, today, save_file, save, clean, embedVars,
                   primerVars, retVars>>

NextVector == RunCleanupQdrant

SpecVector == InitVector /\ [][NextVector]_vars

(***************************************************************************)
(* C18: when the deletion of the points of one date to remove raises       *)
(* during _cleanup_qdrant, the points of every other date to remove are    *)
(* deleted all the same.                                                   *)
(***************************************************************************)
DerivedDates(pts) == {point_date(p) : p \in pts} \ {0}

DatesToRemove(pts, n) == DerivedDates(pts) \ TopN(DerivedDates(pts), n)

CleanupRan == upd.vec.runs > 0

\* the date whose deletion raised
FailedDate ==
    Drop(get_all_dates_in_qdrant(upd.vec.before), max_days)[upd.vec.done + 1]

DeletionFailed ==
    /\ CleanupRan
    /\ upd.vec.scan_ok
    /\ upd.vec.done < Cardinality(DatesToRemove(upd.vec.before, max_days))

C18_OtherDatesStillDeleted ==
    DeletionFailed =>
        \A p \in points :
            point_date(p) \notin (DatesToRemove(upd.vec.before, max_days) \ {FailedDate})

(***************************************************************************)
(* C19: when the collection holds more than max_days dates and no call to  *)
(* it raises, _cleanup_qdrant leaves exactly the points whose date (the    *)
(* payload date, else the leading date of the timestamp) is one of the     *)
(* max_days most recent, together with the points that have no date, also  *)
(* when the collection is longer than one page of the scan.                *)
(***************************************************************************)
CleanupSucceeded ==
    /\ CleanupRan
    /\ ~cleanup_qdrant_failed(upd.vec.before, max_days, upd.vec.scan_ok, upd.vec.done)

C19_DeletesExactlyOldDates ==
    (CleanupSucceeded /\ Cardinality(DerivedDates(upd.vec.before)) > max_days) =>
        points = {p \in upd.vec.before :
                     \/ point_date(p) = 0
                     \/ point_date(p) \in TopN(DerivedDates(upd.vec.before), max_days)}

\* a collection of more than one page, holding a point without a date, a
\* point with a payload date and a point with a timestamp only, was trimmed
C19_Witness ==
    /\ CleanupSucceeded
    /\ Cardinality(upd.vec.before) > PageSize
    /\ \E p \in points : point_date(p) = 0
    /\ \E p \in upd.vec.before : p.date # 0
    /\ \E p \in upd.vec.before \ points : p.date = 0
    /\ points # {}

(***************************************************************************)
(* The retrieval tool at work while facts are saved and days pass.         *)
(***************************************************************************)
InitRetrieve ==
    /\ LogIdle
    /\ EmbedIdle
    /\ PrimerIdle
    /\ RetIdle
    /\ temp = NoFile
    /\ points = {}
    /\ today = 1
    /\ save_file \in {"longterm", "temp"}
    /\ upd = IdleUpdater
    /\ save = IdleSave
    /\ clean = IdleClean

NextRetrieve ==
    \/ SaveMemory
    \/ Tick
    \/ RetrieveCall
    \/ RetrieveCheckClients
    \/ RetrieveEmbed
    \/ RetrieveSearch
    \/ RetrieveSearchError
    \/ RetrieveFormat
    \/ RetrieveReturn

SpecRetrieve == InitRetrieve /\ [][NextRetrieve]_vars

(***************************************************************************)
(* C20: a call of the retrieval tool always ends with a text and changes   *)
(* neither the log nor the collection; with a client missing the text is   *)
(* the 'cannot connect' sentinel and no provider was called; with no hit   *)
(* it is the 'nothing found' sentinel; otherwise it is the hits, at most   *)
(* top_k of them, numbered in the order the search gave them.              *)
(***************************************************************************)
C20_Outcome ==
    /\ ret.pc \in {"idle", "check", "embed", "search", "format", "done"}
    /\ ret.pc = "done" =>
          /\ ret.output.kind \in
                {"unavailable", "embedding_error", "search_error", "not_found", "results"}
          /\ ret.clients # {"qdrant", "protonx"} =>
                (ret.output = Output("unavailable", <<>>) /\ ret.calls = <<>>)
          /\ (ret.searched /\ ret.hits = <<>>) => ret.output = Output("not_found", <<>>)
          /\ (ret.searched /\ ret.hits # <<>>) =>
                /\ ret.output.kind = "results"
                /\ Len(ret.output.lines) <= ret.top_k
                /\ Len(ret.output.lines) = Len(ret.hits)
                /\ \A i \in 1..Len(ret.hits) :
                      /\ ret.output.lines[i].rank = i
                      /\ ret.output.lines[i].timestamp = ret.hits[i].timestamp
                      /\ ret.output.lines[i].text = ret.hits[i].text

C20_Frame == ret' # ret => (longterm' = longterm /\ temp' = temp /\ points' = points)

C20_RetrieveDegrades == [](C20_Outcome) /\ [][C20_Frame]_vars

\* a search over more points than top_k returned top_k lines
C20_Witness ==
    /\ ret.pc = "done"
    /\ ret.output.kind = "results"
    /\ Cardinality(points) > ret.top_k
    /\ Len(ret.output.lines) = ret.top_k
    /\ longterm.lines # <<>>

\* a call with a client missing ended with the sentinel
C20_WitnessUnavailable ==
    ret.pc = "done" /\ ret.clients = {"qdrant"} /\ ret.output.kind = "unavailable"

(***************************************************************************)
(* The explicit clear of the conversation buffer                           *)
(***************************************************************************)

PrimeCalledFirst(f) == f.trace # <<>> /\ f.trace[1] \in {"prime_ok", "prime_fail"}

\* C23: after the explicit clear the buffer is empty, the agent is not primed
\* and its turn counter is 0, whatever the state before; the next turn that
\* asks for auto-priming calls the priming query before its ordinary
\* completion.
C23_ClearResetsPriming ==
    /\ since.just_cleared =>
          /\ agent.memory = <<>>
          /\ ~agent.is_primed
          /\ agent.message_count_since_prime = 0
    /\ \A c \in Clients :
          LET f == chat[c] IN
          /\ (f.entry_just_cleared /\ f.pc # "idle") =>
                (~f.entry_is_primed /\ f.entry_count = 0)
          /\ (f.entry_just_cleared /\ f.auto_prime /\ f.pc \notin {"idle", "check", "prime"}) =>
                PrimeCalledFirst(f)
          /\ (f.entry_just_cleared /\ f.auto_prime /\ f.pc = "check") =>
                needs_prime(agent, f.auto_prime)

\* a primed agent with counted turns was cleared, and the next auto-priming
\* turn primed and then completed
C23_Witness ==
    /\ since.cleared_primed
    /\ \E c \in Clients :
          /\ chat[c].entry_just_cleared
          /\ chat[c].auto_prime
          /\ chat[c].pc = "done"
          /\ chat[c].trace = <<"prime_ok", "invoke_ok", "incr">>

(***************************************************************************)
(* The long-term collection under saves, retention cleanups and the import *)
(* script (Database/init_longterm_memory.py), which reads the long-term    *)
(* log, creates the collection and uploads one point per entry.            *)
(***************************************************************************)

\* create_collection: an existing collection of that name is deleted, then
\* a new, empty one is created
create_collection(pts) == {}

\* upload_entries: one point per entry, its id the line number of the entry
upload_entries(pts, entries) ==
    upsert(pts, {Point(entries[i].id, 0, entries[i].timestamp,
                       <<entries[i].text_without_timestamp>>) : i \in 1..Len(entries)})

\* main() of the import script: nothing is done for a log without entries;
\* the embedding call may raise after the collection was created
ImportLongterm ==
    /\ \E embedding \in {"ok", "error"} :
          LET entries == parse_longterm_file(longterm) IN
          points' = IF entries = <<>> THEN points
                    ELSE IF embedding = "ok"
                         THEN upload_entries(create_collection(points), entries)
                         ELSE create_collection(points)
    /\ UNCHANGED <<logVars, temp, today, save_file, upd, save, clean, embedVars, primerVars,
                   retVars>>

ImportLines == {Stamped(d, "a", FALSE) : d \in Dates} \cup {BlankLine}

ImportLogs ==
    UNION {[1..n -> ImportLines] : n \in 0..(MaxLogLen - 1)}

InitCollection ==
    /\ longterm \in {File(ls) : ls \in ImportLogs} \cup {NoFile}
    /\ max_days = DefaultMaxDays
    /\ hist = <<>>
    /\ temp = NoFile
    /\ points = {}
    /\ today = 1
    /\ save_file \in {"longterm", "temp"}
    /\ upd = IdleUpdater
    /\ save = IdleSave
    /\ clean = IdleClean
    /\ EmbedIdle
    /\ PrimerIdle
    /\ RetIdle

NextCollection ==
    \/ SaveMemory
    \/ Tick
    \/ ImportLongterm
    \/ RunCleanupQdrant

SpecCollection == InitCollection /\ [][NextCollection]_vars

Ids(pts) == {p.id : p \in pts}

\* a save that wrote a point the collection did not hold as such
SaveWrotePoint == SaveMemory /\ points' # points

\* C21: the id of a newly saved point of the long-term collection is greater
\* than every id given in that collection before, across saves, imports and
\* retention cleanups.
C21_SavedIdsIncrease ==
    [][SaveWrotePoint => \A p \in points' \ points : \A q \in points : p.id > q.id]_vars

\* C22: a long-term collection that holds points loses points only to the
\* retention cleanup; no operation drops or recreates it.
C22_OnlyCleanupRemoves ==
    [][(points # {} /\ ~(Ids(points) \subseteq Ids(points'))) => RunCleanupQdrant]_vars

\* C30: a successful save adds a new point to the long-term collection and
\* overwrites none: the point count grows by exactly one, after any saves,
\* imports of logs with blank lines and retention cleanups.
C30_SaveAddsOnePoint ==
    [][SaveWrotePoint =>
         (points \subseteq points' /\ Cardinality(points') = Cardinality(points) + 1)]_vars

(***************************************************************************)
(* SaveMemoryTool._run step by step: the timestamp is taken once, the line *)
(* is appended to the file, then (with both clients set) the text is       *)
(* embedded and the point upserted.  The cleanup of the log step by step:  *)
(* _parse_longterm_file reads the file, the rewrite opens it with 'w'.     *)
(***************************************************************************)
target_file == IF save_file = "longterm" THEN longterm ELSE temp

MaxFileLen == IF save_file = "longterm" THEN MaxLogLen ELSE MaxTempLen

may_append_unlocked(c) == TRUE

\* the file can be appended to: always when nothing locks it, else only
\* outside the span from the read to the rewrite of a cleanup
may_append(c) == c.exclusive => c.pc # "rewrite"

\* _run is called; an empty or blank argument returns at once
SaveCall ==
    /\ save.pc = "idle"
    /\ \E information \in Informations \cup {<<>>}, clients \in BOOLEAN :
          /\ Len(target_file.lines) + Len(information) <= MaxFileLen
          /\ save' = IF information = <<>>
                     THEN [IdleSave EXCEPT !.pc = "done", !.output = "empty"]
                     ELSE [IdleSave EXCEPT !.pc = "append", !.information = information,
                                           !.timestamp = today, !.clients = clients]
    /\ UNCHANGED <<logVars, temp, points, today, save_file, upd, clean, embedVars,
                   primerVars, retVars>>

\* f.write(f"[{timestamp}] {information.strip()}\n")
SaveAppendOk ==
    /\ save.pc = "append"
    /\ may_append(clean)
    /\ Len(target_file.lines) + Len(save.information) <= MaxFileLen
    /\ LET ls == stamped_write(save.information, save.timestamp) IN
          /\ IF save_file = "longterm"
             THEN /\ longterm' = append_file(longterm, ls)
                  /\ clean' = [clean EXCEPT !.appended = @ \o ls]
                  /\ UNCHANGED temp
             ELSE /\ temp' = append_file(temp, ls)
                  /\ UNCHANGED <<longterm, clean>>
          /\ save' = [save EXCEPT !.written = ls,
                                  !.pc = IF save.clients THEN "embed" ELSE "return"]
    /\ UNCHANGED <<max_days, hist, points, today, save_file, upd, embedVars, primerVars,
                   retVars>>

on_append_error_goes_on(f) == [f EXCEPT !.failed = "append", !.pc = "embed"]

\* the append raises, the except of the file block raises again and the
\* outer except returns the error text
on_append_error(f) == [f EXCEPT !.failed = "append", !.pc = "done", !.output = "error"]

SaveAppendFail ==
    /\ save.pc = "append"
    /\ save' = on_append_error(save)
    /\ UNCHANGED <<logVars, temp, points, today, save_file, upd, clean, embedVars,
                   primerVars, retVars>>

\* protonx_client.embeddings.create([information.strip()])
SaveEmbedOk ==
    /\ save.pc = "embed"
    /\ save' = [save EXCEPT !.pc = "upsert"]
    /\ UNCHANGED <<logVars, temp, points, today, save_file, upd, clean, embedVars,
                   primerVars, retVars>>

\* the embedding call raises: a warning is logged
SaveEmbedFail ==
    /\ save.pc = "embed"
    /\ save' = [save EXCEPT !.failed = "embed", !.pc = "return"]
    /\ UNCHANGED <<logVars, temp, points, today, save_file, upd, clean, embedVars,
                   primerVars, retVars>>

\* the point of the save: payload text "[timestamp] information"
save_point(pts, f) == Point(next_id(pts), 0, f.timestamp, f.information)

\* get_collection, then upsert(points=[point])
SaveUpsertOk ==
    /\ save.pc = "upsert"
    /\ Cardinality(points) < MaxPoints
    /\ points' = upsert(points, {save_point(points, save)})
    /\ save' = [save EXCEPT !.point = {save_point(points, save)}, !.pc = "return"]
    /\ UNCHANGED <<logVars, temp, today, save_file, upd, clean, embedVars, primerVars,
                   retVars>>

\* get_collection or upsert raises: a warning is logged
SaveUpsertFail ==
    /\ save.pc = "upsert"
    /\ save' = [save EXCEPT !.failed = "upsert", !.pc = "return"]
    /\ UNCHANGED <<logVars, temp, points, today, save_file, upd, clean, embedVars,
                   primerVars, retVars>>

\* output = f"Đã lưu: ..."; return output
SaveReturn ==
    /\ save.pc = "return"
    /\ save' = [save EXCEPT !.pc = "done", !.output = "saved"]
    /\ UNCHANGED <<logVars, temp, points, today, save_file, upd, clean, embedVars,
                   primerVars, retVars>>

\* the caller has the text
SaveDone ==
    /\ save.pc = "done"
    /\ save' = IdleSave
    /\ UNCHANGED <<logVars, temp, points, today, save_file, upd, clean, embedVars,
                   primerVars, retVars>>

InitSave ==
    /\ longterm = NoFile
    /\ max_days = DefaultMaxDays
    /\ hist = <<>>
    /\ temp = NoFile
    /\ points = {}
    /\ today = 1
    /\ save_file \in {"longterm", "temp"}
    /\ upd = IdleUpdater
    /\ save = IdleSave
    /\ clean = IdleClean
    /\ EmbedIdle
    /\ PrimerIdle
    /\ RetIdle

NextSave ==
    \/ SaveCall
    \/ SaveAppendOk
    \/ SaveAppendFail
    \/ SaveEmbedOk
    \/ SaveEmbedFail
    \/ SaveUpsertOk
    \/ SaveUpsertFail
    \/ SaveReturn
    \/ SaveDone
    \/ Tick

SpecSave == InitSave /\ [][NextSave]_vars

\* the lines at the end of the file the save writes to
FileTail(n) ==
    SubSeq(target_file.lines, Len(target_file.lines) - Min2(n, Len(target_file.lines)) + 1,
           Len(target_file.lines))

\* C26: in a save the append comes before the upsert and is the primary
\* write.  When the append fails nothing reaches the vector store and an
\* error text is returned; when the embedding or the upsert fails, or a
\* client is missing, the appended line stays and the confirmation is
\* returned; the call always ends by returning a text; a point written
\* carries the timestamp and the text of the line that was appended.
C26_AppendIsPrimary ==
    /\ save.pc \in {"idle", "append", "embed", "upsert", "return", "done"}
    /\ save.pc = "done" => save.output \in {"empty", "error", "saved"}
    /\ save.pc \in {"embed", "upsert", "return"} => save.written # <<>>
    /\ save.failed = "append" =>
          /\ save.written = <<>> /\ save.point = {}
          /\ save.pc = "done" /\ save.output = "error"
    /\ (save.pc = "done" /\ save.output = "error") => save.failed = "append"
    /\ (save.pc = "done" /\ (save.failed \in {"embed", "upsert"}
                                \/ (~save.clients /\ save.output = "saved"))) =>
          /\ save.output = "saved"
          /\ save.point = {}
          /\ save.written = stamped_write(save.information, save.timestamp)
          /\ FileTail(Len(save.written)) = save.written
    /\ \A p \in save.point :
          /\ p \in points
          /\ save.written = stamped_write(p.text, p.timestamp)
          /\ FileTail(Len(save.written)) = save.written

\* a save of two lines wrote its point on the day after it appended them
C26_Witness ==
    /\ save.pc = "done" /\ save.output = "saved"
    /\ save.point # {}
    /\ Len(save.written) = 2
    /\ today > save.timestamp

\* a save whose append failed returned the error text
C26_WitnessAppendFailed == save.pc = "done" /\ save.failed = "append"

\* a save whose upsert failed returned the confirmation
C26_WitnessUpsertFailed ==
    save.pc = "done" /\ save.failed = "upsert" /\ save.output = "saved"

(***************************************************************************)
(* _cleanup_longterm_file with saves under way.  The updater and the save  *)
(* tool open the same file and share no lock.                              *)
(***************************************************************************)

\* the entries read call for a rewrite: more dates than max_days
needs_rewrite(file, n) ==
    LET entries == MemoryUpdater_parse_longterm_file(file)
    IN entries # <<>> /\ Len(unique_dates_of(entries)) > n

\* entries = self._parse_longterm_file(), and the two early returns
CleanupRead ==
    /\ clean.pc = "idle"
    /\ clean.runs < MaxRuns
    /\ clean' = [clean EXCEPT !.read = longterm, !.runs = @ + 1,
                              !.pc = IF needs_rewrite(longterm, max_days)
                                     THEN "rewrite" ELSE "done"]
    /\ UNCHANGED <<logVars, temp, points, today, save_file, upd, save, embedVars,
                   primerVars, retVars>>

\* open(self.longterm_file, 'w') and the entries kept written back
CleanupRewrite ==
    /\ clean.pc = "rewrite"
    /\ longterm' = cleanup_longterm_file(clean.read, max_days)
    /\ clean' = [clean EXCEPT !.pc = "done"]
    /\ UNCHANGED <<max_days, hist, temp, points, today, save_file, upd, save, embedVars,
                   primerVars, retVars>>

CleanupReturn ==
    /\ clean.pc = "done"
    /\ clean' = [clean EXCEPT !.pc = "idle", !.read = NoFile]
    /\ UNCHANGED <<logVars, temp, points, today, save_file, upd, save, embedVars,
                   primerVars, retVars>>

RaceLogs == UNION {[1..n -> {Stamped(d, "b", FALSE) : d \in Dates}] : n \in 0..(MaxLogLen - 1)}

InitCleanupRace ==
    /\ longterm \in {File(ls) : ls \in RaceLogs}
    /\ max_days \in 1..MaxKeep
    /\ hist = <<>>
    /\ temp = NoFile
    /\ points = {}
    /\ today = 1
    /\ save_file = "longterm"
    /\ upd = IdleUpdater
    /\ save = IdleSave
    /\ \E exclusive \in BOOLEAN : clean = [IdleClean EXCEPT !.exclusive = exclusive]
    /\ EmbedIdle
    /\ PrimerIdle
    /\ RetIdle

NextCleanupRace ==
    \/ SaveCall
    \/ SaveAppendOk
    \/ SaveAppendFail
    \/ SaveEmbedOk
    \/ SaveEmbedFail
    \/ SaveUpsertOk
    \/ SaveUpsertFail
    \/ SaveReturn
    \/ SaveDone
    \/ Tick
    \/ CleanupRead
    \/ CleanupRewrite
    \/ CleanupReturn

SpecCleanupRace == InitCleanupRace /\ [][NextCleanupRace]_vars

\* the lines saves appended that carry a date the log still has
AppendedRetained ==
    {l \in Range(clean.appended) : l.form = "stamped" /\ l.date \in StampedDates(longterm)}

\* C25: when the cleanup holds the log from its read to its rewrite, no
\* line a save appended whose date is retained is missing from the log; with
\* nothing held, a line appended between the read and the rewrite is gone
\* after the rewrite.
C25_ExclusiveLosesNoLine ==
    clean.exclusive => AppendedRetained \subseteq Range(longterm.lines)

\* without the lock a line was appended between the read and the rewrite
\* and the rewrite left its date in the log but not the line
C25_Witness ==
    /\ ~clean.exclusive
    /\ clean.pc = "done"
    /\ longterm # clean.read
    /\ ~(AppendedRetained \subseteq Range(longterm.lines))

\* with the lock a cleanup that rewrote the log kept an appended line
C25_WitnessExclusive ==
    /\ clean.exclusive
    /\ clean.pc = "done"
    /\ longterm # clean.read
    /\ AppendedRetained # {}

(***************************************************************************)
(* What the truncation of the buffer at the end of a run leaves behind.    *)
(***************************************************************************)

\* the run wrote a line for the content it read
SummaryAppended == StepName("append") \in Range(upd.steps) /\ upd.summary # <<>>

\* C27: when a run of update_memory truncates a buffer that was not empty, a
\* line made from that content was appended to the log earlier in the run,
\* also when the completion answers with an empty or blank text.
C27_TruncationFollowsAppend ==
    [][(UpdClearTemp /\ ~upd.overlapped /\ upd.temp_content # <<>> /\ temp' # temp)
          => SummaryAppended]_vars

\* the lines appended to the buffer after the run read it
LateLines == SubSeq(temp.lines, Len(upd.temp_content) + 1, Len(temp.lines))

CoveredBySummary(l) == \E i \in 1..Len(upd.summary) : upd.summary[i].txt = l.txt

\* C28: a fact appended to the buffer after the run read it and before the
\* run truncates it is not lost: after the truncation it is in the buffer
\* still, or the summary covers it.
C28_LateFactsKept ==
    [][UpdClearTemp =>
         \A i \in 1..Len(LateLines) :
             LateLines[i] \in Range(temp'.lines) \/ CoveredBySummary(LateLines[i])]_vars

\* the exchanges stored after the latest priming exchange of the window
RECURSIVE StoredSincePrime(_)
StoredSincePrime(m) ==
    IF m = <<>> \/ m[Len(m)] = "prime" THEN 0
    ELSE 1 + StoredSincePrime(SubSeq(m, 1, Len(m) - 1))

AlwaysAutoPrimed == ~since.manual /\ ~since.ever_failed /\ agent.buffer_size >= 1

\* C29: when every turn asks for auto-priming, the window holds at least one
\* exchange and no priming call fails, the latest priming exchange is in the
\* window whenever an ordinary completion starts: it and the exchanges
\* stored after it number at most buffer_size.
C29_PrimeInWindow ==
    \A c \in Clients :
        (chat[c].pc = "invoke" /\ AlwaysAutoPrimed) =>
            /\ "prime" \in Range(agent.memory)
            /\ 1 + StoredSincePrime(agent.memory) <= agent.buffer_size
            /\ StoredSincePrime(agent.memory) = agent.message_count_since_prime

\* an ordinary completion starts with the window full and the priming
\* exchange its oldest entry, after a clear and a new priming
C29_Witness ==
    /\ AlwaysAutoPrimed
    /\ agent.buffer_size >= 2
    /\ Len(agent.memory) = agent.buffer_size
    /\ agent.memory[1] = "prime"
    /\ since.cleared_primed
    /\ \E c \in Clients : chat[c].pc = "invoke" /\ chat[c].trace = <<>>

(***************************************************************************)
(* Requests of one session that may overlap.  The agent is one object per  *)
(* process; serialized tells whether its host hands it one request at a    *)
(* time.                                                                   *)
(***************************************************************************)

InitPrimerRace ==
    /\ \E buffer_size \in 1..MaxBuffer, serialized \in BOOLEAN :
          agent = [NewAgent(buffer_size) EXCEPT !.serialized = serialized]
    /\ chat = [c \in Clients |-> IdleFrame]
    /\ since = NewSince
    /\ LogIdle
    /\ EmbedIdle
    /\ MemIdle
    /\ RetIdle

SpecPrimerRace == InitPrimerRace /\ [][NextPrimer]_vars

\* two requests in flight both found priming needed on entry and both called
\* the priming query
BothPrimed ==
    \E c1, c2 \in Clients :
        /\ c1 # c2
        /\ chat[c1].pc # "idle" /\ chat[c2].pc # "idle"
        /\ chat[c1].entry_is_primed = chat[c2].entry_is_primed
        /\ chat[c1].entry_count = chat[c2].entry_count
        /\ PrimeCalledFirst(chat[c1]) /\ PrimeCalledFirst(chat[c2])

\* the counter holds less than the increments made since it was last reset
IncrementLost == agent.message_count_since_prime < since.incrs

\* C24: when the requests of a session are handled one at a time, two
\* requests never both prime from the same observed state and no increment
\* of the turn counter is lost; requests that overlap can do both.
C24_SerializedHasNoRace ==
    agent.serialized =>
        /\ ~BothPrimed
        /\ ~IncrementLost
        /\ agent.message_count_since_prime = since.incrs

\* overlapping requests both primed, and one of their increments was lost
C24_Witness ==
    /\ ~agent.serialized
    /\ BothPrimed
    /\ IncrementLost
    /\ \A c \in Clients : chat[c].pc = "done"

\* overlapping requests both primed
C24_WitnessBothPrimed == ~agent.serialized /\ BothPrimed

\* overlapping requests lost an increment
C24_WitnessIncrementLost ==
    /\ ~agent.serialized
    /\ IncrementLost
    /\ \A c \in Clients : chat[c].pc = "done" /\ chat[c].trace = <<"invoke_ok", "incr">>

====
